---------------------------- MODULE Spec2Model ----------------------------
(***************************************************************************)
(* SolarPal backend (src/backend/main.py): the Score Engine                *)
(* (calculate_solar_score), the zone classification                        *)
(* (create_zone_from_data), the single-point query (get_solar_data) and    *)
(* the zone aggregation query (get_solar_zones with its per-point          *)
(* coroutine fetch_solar_data_for_point).                                  *)
(*                                                                         *)
(* Number representation.  A daily irradiance reading is an integer count  *)
(* of half units: v stands for v/2 kWh/m2/day, so every reading is a       *)
(* double the upstream JSON carries exactly.  A mean is the exact rational *)
(* [num, den].  Results that Python rounds to d decimals are integers      *)
(* scaled by 10^d (avg_irradiance, min, max in hundredths, consistency and *)
(* avg_solar_score in tenths).                                             *)
(*                                                                         *)
(* Double precision.  The program computes in IEEE doubles.  Python's      *)
(* int() truncates the double and round() rounds the double's exact value. *)
(* Where the exact rational is neither an integer (for int) nor halfway    *)
(* between two results (for round) the double is far closer to it than to  *)
(* the next integer or tie, and the result is that of the exact rational.  *)
(* Where it is, the result depends on the side of the exact value the      *)
(* double lies on.  For a single correctly rounded quotient                *)
(* (statistics.mean) DoubleSide computes that side from the remainder of   *)
(* the 53-bit mantissa; MeanOfHundredths does so for a mean of doubles     *)
(* that are themselves inexact; for the chains of operations of lines 49,  *)
(* 53, 57, 61, 68 and 72 the side is tabulated from the program's doubles  *)
(* (ScoreBelow*, ConsistencyAbove, ConsistencyBelow, AnnualAbove), for     *)
(* series of at most 31 readings between 0.0 and 10.0.                     *)
(***************************************************************************)
EXTENDS Integers, Sequences, FiniteSets, TLC

(***************************************************************************)
(* Bounds of the model.                                                    *)
(***************************************************************************)
\* number of sampling points of the catalog (the program has 21)
NumPoints == 3
\* longest series handed to the Score Engine harness
MaxLen == 3
\* largest reading of the Score Engine harness, in half units (7.0)
MaxReading == 14
\* longest two-valued series handed to the Score Engine harness
LongLen == 17

(***************************************************************************)
(* Program constants.                                                      *)
(***************************************************************************)
\* the upstream "no data" marker -999.0, in half units
Sentinel == -1998

VARIABLES
    series,     \* Score Engine harness: the series given to the engine
    analysis,   \* Score Engine harness: <<>> or <<outcome of the call>>
    zdata,      \* classification harness: the scored point given
    zout,       \* classification harness: <<>> or <<zone>>
    spc,        \* single-point query: "idle", "await", "closing", "done"
    sreq,       \* single-point query: the request's lat and lon (tenths)
    sup,        \* single-point query: <<>> or <<what upstream answered>>
    sresp,      \* single-point query: <<>> or <<HTTP response>>
    zpc,        \* zone query: "idle", "gather", "closing", "done"
    task,       \* zone query: per point "none", "pending", "settled"
    upstream,   \* zone query: per point <<>> or <<what upstream answered>>
    results,    \* zone query: per point <<>> or <<value of the coroutine>>
    finished,   \* zone query: the points in the order their fetch settled
    zresp       \* zone query: <<>> or <<HTTP response>>

vars == <<series, analysis, zdata, zout, spc, sreq, sup, sresp,
          zpc, task, upstream, results, finished, zresp>>

scoreVars == <<series, analysis>>
classVars == <<zdata, zout>>
solarVars == <<spc, sreq, sup, sresp>>
zoneVars  == <<zpc, task, upstream, results, finished, zresp>>

(***************************************************************************)
(* Arithmetic helpers.                                                     *)
(***************************************************************************)
RECURSIVE SumSeq(_)
SumSeq(s) == IF s = <<>> THEN 0 ELSE Head(s) + SumSeq(Tail(s))

\* Python min() / max() of a non-empty list
MinSeq(s) == CHOOSE x \in {s[i] : i \in DOMAIN s} :
                 \A j \in DOMAIN s : x <= s[j]
MaxSeq(s) == CHOOSE x \in {s[i] : i \in DOMAIN s} :
                 \A j \in DOMAIN s : x >= s[j]

\* Python int(x) for x = num/den, den > 0: truncation toward zero
Trunc(num, den) == IF num >= 0 THEN num \div den ELSE -((-num) \div den)

\* Python round(x) for x = num/den, den > 0: nearest, ties to even
Round(num, den) ==
    LET f == num \div den
        r == num - f * den
    IN  IF 2 * r > den THEN f + 1
        ELSE IF 2 * r < den THEN f
        ELSE IF f % 2 = 0 THEN f ELSE f + 1

Min2(a, b) == IF a <= b THEN a ELSE b
Max2(a, b) == IF a >= b THEN a ELSE b

\* statistics.mean of a non-empty list of readings (half units): the exact
\* sum divided by the count, returned as the double nearest to num/den
\* kWh/m2/day.  The record is the exact rational; DoubleSide gives the side of
\* it the double lies on.
Mean(values) == [num |-> SumSeq(values), den |-> 2 * Len(values)]

(***************************************************************************)
(* IEEE double division p / q of two small non-negative integers.          *)
(***************************************************************************)
RECURSIVE Pow2(_)
Pow2(e) == IF e = 0 THEN 1 ELSE 2 * Pow2(e - 1)

\* 2^e modulo m
RECURSIVE Pow2Mod(_, _)
Pow2Mod(e, m) == IF e = 0 THEN 1 % m ELSE (2 * Pow2Mod(e - 1, m)) % m

RECURSIVE ExponentFrom(_, _, _)
ExponentFrom(p, q, t) ==
    IF q * Pow2(t + 1) <= p THEN ExponentFrom(p, q, t + 1) ELSE t
RECURSIVE ExponentBelow(_, _, _)
ExponentBelow(p, q, u) ==
    IF p * Pow2(u) < q THEN ExponentBelow(p, q, u + 1) ELSE u

\* the binary exponent t of p/q > 0: 2^t <= p/q < 2^(t+1)
Exponent(p, q) ==
    IF p >= q THEN ExponentFrom(p, q, 0) ELSE -ExponentBelow(p, q, 1)

\* p / q in units of the last place of its binade: p * 2^(52 - t) =
\* m * q + rem with 0 <= rem < q; odd tells whether m is odd
Mantissa(p, q) ==
    LET t == Exponent(p, q)
        r2 == ((p % (2 * q)) * Pow2Mod(52 - t, 2 * q)) % (2 * q)
    IN  [rem |-> r2 % q, odd |-> r2 >= q, exp |-> t]

\* the double p / q (round to nearest, ties to even) against the rational
\* p/q: -1 when the double is below it, 0 when equal, 1 when above
DoubleSide(p, q) ==
    IF p = 0 THEN 0
    ELSE LET m == Mantissa(p, q)
         IN  IF m.rem = 0 THEN 0
             ELSE IF 2 * m.rem < q THEN -1
             ELSE IF 2 * m.rem > q THEN 1
             ELSE IF m.odd THEN 1 ELSE -1

\* Python round(x, d) of the double x = num / den, scaled by scale = 10^d:
\* the nearest multiple; when num/den is halfway, the side the double lies
\* on decides, and ties-to-even when the double is the tie itself
RoundDouble(num, den, scale) ==
    LET f == (scale * num) \div den
        r == scale * num - f * den
        side == DoubleSide(num, den)
    IN  IF 2 * r > den THEN f + 1
        ELSE IF 2 * r < den THEN f
        ELSE IF side > 0 THEN f + 1
        ELSE IF side < 0 THEN f
        ELSE IF f % 2 = 0 THEN f ELSE f + 1

\* the double nearest to a/100 minus a/100, in units of 1 / (100 * 2^59)
\* (a >= 1 makes the exponent at least -7)
HundredthError(a) ==
    IF a = 0 THEN 0
    ELSE LET m == Mantissa(a, 100)
             rho == IF m.rem = 0 THEN 0
                    ELSE IF 2 * m.rem < 100 THEN -m.rem
                    ELSE IF 2 * m.rem > 100 THEN 100 - m.rem
                    ELSE IF m.odd THEN 100 - m.rem ELSE -m.rem
         IN  rho * Pow2(m.exp + 7)

RECURSIVE SumHundredthError(_)
SumHundredthError(s) ==
    IF s = <<>> THEN 0 ELSE HundredthError(Head(s)) + SumHundredthError(Tail(s))

\* round(statistics.mean(xs), 2) in hundredths, xs being the doubles nearest
\* to a/100 for the integers a of the list.  The mean is the double nearest
\* to the exact mean of those doubles; when the mean of the integers is
\* halfway between two hundredths, the side of the tie that double lies on
\* follows from the summed errors of the doubles.
MeanOfHundredths(hundredths) ==
    LET n == Len(hundredths)
        total == SumSeq(hundredths)
        f == total \div n
        r == total - f * n
        errs == SumHundredthError(hundredths)
        \* the tie (2f + 1) / 200 in units of the last place: m + rem/200
        tie == Mantissa(2 * f + 1, 200)
        up == IF tie.exp + 7 >= 0 THEN Pow2(tie.exp + 7) ELSE 1
        dn == IF tie.exp + 7 < 0 THEN Pow2(-(tie.exp + 7)) ELSE 1
        \* the exact mean of the doubles, less m, in units of the last place
        y == tie.rem * n * up + 2 * errs * dn
        z == 200 * n * up
        k0 == y \div z
        yr == y - k0 * z
        \* the mantissa of the mean is m + k: nearest, ties to even
        k == IF 2 * yr > z THEN k0 + 1
             ELSE IF 2 * yr < z THEN k0
             ELSE IF (k0 % 2 = 1) = tie.odd THEN k0 ELSE k0 + 1
        side == 200 * k - tie.rem
    IN  IF 2 * r > n THEN f + 1
        ELSE IF 2 * r < n THEN f
        ELSE IF side > 0 THEN f + 1
        ELSE IF side < 0 THEN f
        ELSE IF f % 2 = 0 THEN f ELSE f + 1

(***************************************************************************)
(* Exceptions and outcomes of a block of code.                             *)
(***************************************************************************)
Exc(type, status) == [type |-> type, status |-> status]
Raise(e)  == [kind |-> "raise", exc |-> e, value |-> <<>>]
Return(v) == [kind |-> "return", exc |-> Exc("", 0), value |-> <<v>>]

(***************************************************************************)
(* Score Engine: calculate_solar_score.                                    *)
(***************************************************************************)
\* lines 48-63 with int() replaced by round(): the spec's reading
BasicScoreRounded(avg) ==
    IF avg.num * 2 >= 11 * avg.den
    THEN [score |-> Min2(100, Round(avg.num * 200, avg.den * 13)),
          rating |-> "Excellent"]
    ELSE IF avg.num * 2 >= 9 * avg.den
    THEN [score |-> Round(avg.num * 170, avg.den * 11), rating |-> "Good"]
    ELSE IF avg.num * 2 >= 7 * avg.den
    THEN [score |-> Round(avg.num * 130, avg.den * 9), rating |-> "Fair"]
    ELSE [score |-> Round(avg.num * 80, avg.den * 7), rating |-> "Low"]

\* lines 49, 53, 57, 61: the integers k for which the double (avg / top) *
\* scale of the mean avg = k * top / scale lies just below k, so that int()
\* gives k - 1 (for all other k the double is k).  Line 49 caps at 100, which
\* leaves 90 as the only such k of the first band; the second band has none.
ScoreBelowExcellent == {90}
ScoreBelowFair == {58, 59, 62, 63}
ScoreBelowLow == {1, 2, 4, 8, 16, 27, 32}

\* int((avg / top) * scale) for the exact quotient num/den
IntOfDouble(num, den, below) ==
    LET k == Trunc(num, den)
    IN  IF k * den = num /\ k \in below THEN k - 1 ELSE k

\* lines 48-63: band selection; score = int((avg / top) * scale)
\*   avg >= 5.5: min(100, int(avg / 6.5 * 100))   avg >= 4.5: int(avg / 5.5 * 85)
\*   avg >= 3.5: int(avg / 4.5 * 65)              else: int(avg / 3.5 * 40)
\* (5.5, 4.5 and 3.5 are doubles, so comparing the double mean with them is
\* comparing the exact mean)
BasicScore(avg) ==
    IF avg.num * 2 >= 11 * avg.den
    THEN [score |-> Min2(100, IntOfDouble(avg.num * 200, avg.den * 13,
                                          ScoreBelowExcellent)),
          rating |-> "Excellent"]
    ELSE IF avg.num * 2 >= 9 * avg.den
    THEN [score |-> IntOfDouble(avg.num * 170, avg.den * 11, {}),
          rating |-> "Good"]
    ELSE IF avg.num * 2 >= 7 * avg.den
    THEN [score |-> IntOfDouble(avg.num * 130, avg.den * 9, ScoreBelowFair),
          rating |-> "Fair"]
    ELSE [score |-> IntOfDouble(avg.num * 80, avg.den * 7, ScoreBelowLow),
          rating |-> "Low"]

\* lines 51, 55, 59, 63: the advisory tied to the rating
Recommendation(rating) ==
    CASE rating = "Excellent" ->
           "Outstanding location for solar installation. High energy yield expected."
      [] rating = "Good" ->
           "Suitable for solar installation. Good energy yield expected."
      [] rating = "Fair" ->
           "Moderate potential for solar panels. Consider local factors."
      [] OTHER ->
           "Limited solar potential. Consider alternative energy sources."

\* lines 68, 78: the exact value of 100 - ((max - min) / avg * 50) is
\* halfway between two tenths only at x.25 and x.75, which are doubles, and
\* the double the program computes is then that value, rounded to even,
\* except for the following <<max - min in half units, p, q>> with avg = p/q
\* where it lies just above (Above) or just below (Below) the tie
ConsistencyAbove ==
    {<<3, 20, 17>>, <<6, 40, 17>>, <<7, 140, 31>>, <<9, 36, 7>>,
     <<12, 80, 17>>, <<13, 100, 19>>, <<14, 280, 31>>, <<15, 100, 17>>,
     <<17, 20, 3>>, <<19, 100, 13>>}
ConsistencyBelow ==
    {<<5, 100, 29>>, <<9, 100, 29>>, <<10, 200, 29>>, <<11, 100, 23>>,
     <<13, 260, 29>>, <<15, 60, 13>>, <<18, 200, 29>>}

\* avg = e[2]/e[3] and max - min = e[1] for some e of the table
InTable(table, avg, range) ==
    \E e \in table : e[1] = range /\ avg.num * e[3] = e[2] * avg.den

\* lines 68, 78: 100 - ((max - min) / avg * 50), rounded to 1 decimal, then
\* clamped to [0, 100]; in tenths.  Only called with avg # 0.
Consistency(avg, mn, mx) ==
    LET num == 1000 * 2 * avg.num - (mx - mn) * avg.den * 500
        den == 2 * avg.num
        f == num \div den
        r == num - f * den
        c10 == IF 2 * r > den THEN f + 1
               ELSE IF 2 * r < den THEN f
               ELSE IF InTable(ConsistencyAbove, avg, mx - mn) THEN f + 1
               ELSE IF InTable(ConsistencyBelow, avg, mx - mn) THEN f
               ELSE IF f % 2 = 0 THEN f ELSE f + 1
    IN  Max2(0, Min2(1000, c10))

\* lines 72, 81 with the product truncated instead of rounded
AnnualEstimateTrunc(avg) == Trunc(avg.num * 365 * 85, avg.den * 100)

\* line 72: avg * 365 * 0.85 is halfway between two integers exactly when
\* avg = 2t/17 with t odd.  0.85 is not a double, and the product the program
\* computes lies just above the tie for these t and just below it for the
\* other odd t up to 85 (avg <= 10.0)
AnnualAbove == {3, 11, 15, 19, 23, 31, 43, 47, 51, 55, 59, 63, 67, 71, 75,
                79, 83}

\* lines 72, 81: round(avg * 365 * 0.85, 0)
AnnualEstimate(avg) ==
    LET num == avg.num * 365 * 85
        den == avg.den * 100
        f == num \div den
        r == num - f * den
    IN  IF 2 * r > den THEN f + 1
        ELSE IF 2 * r < den THEN f
        ELSE IF \E t \in AnnualAbove : 17 * avg.num = 2 * t * avg.den
             THEN f + 1
        ELSE f

\* lines 42-82.  The division of line 68 raises ZeroDivisionError when
\* avg_irradiance is 0 (no guard precedes it).
calculate_solar_score(avg, daily_values) ==
    LET basic == BasicScore(avg)
        mn == MinSeq(daily_values)
        mx == MaxSeq(daily_values)
    IN  IF avg.num = 0
        THEN Raise(Exc("ZeroDivisionError", 0))
        ELSE Return([score |-> Max2(0, basic.score),
                     rating |-> basic.rating,
                     recommendation |-> Recommendation(basic.rating),
                     consistency_score |-> Consistency(avg, mn, mx),
                     min_irradiance |-> mn * 50,
                     max_irradiance |-> mx * 50,
                     estimated_annual_kwh_per_kw |-> AnnualEstimate(avg)])

(***************************************************************************)
(* Zone classification: create_zone_from_data.                             *)
(***************************************************************************)
\* lines 378-389 with each threshold five points lower
ZoneTypeLowered(solar_score) ==
    IF solar_score >= 80 THEN "excellent"
    ELSE IF solar_score >= 65 THEN "good"
    ELSE IF solar_score >= 50 THEN "fair"
    ELSE "low"

\* lines 378-389 with the first comparison strict
ZoneTypeStrict(solar_score) ==
    IF solar_score > 85 THEN "excellent"
    ELSE IF solar_score >= 70 THEN "good"
    ELSE IF solar_score >= 55 THEN "fair"
    ELSE "low"

\* lines 378-389: zone_type
ZoneType(solar_score) ==
    IF solar_score >= 85 THEN "excellent"
    ELSE IF solar_score >= 70 THEN "good"
    ELSE IF solar_score >= 55 THEN "fair"
    ELSE "low"

\* lines 378-389: color, set in the same branch as zone_type
ZoneColor(solar_score) ==
    IF solar_score >= 85 THEN "#22c55e"
    ELSE IF solar_score >= 70 THEN "#eab308"
    ELSE IF solar_score >= 55 THEN "#f97316"
    ELSE "#ef4444"

\* lines 375-417 (the box, the center, the id and the timestamp, which no
\* other field depends on, are not carried)
create_zone_from_data(data) ==
    [name |-> data.name,
     type |-> ZoneType(data.solar_score),
     color |-> ZoneColor(data.solar_score),
     score |-> data.solar_score,
     avg_irradiance |-> data.avg_irradiance,
     rating |-> data.rating,
     recommendation |-> data.recommendation,
     consistency_score |-> data.consistency_score,
     min_irradiance |-> data.min_irradiance,
     max_irradiance |-> data.max_irradiance]

(***************************************************************************)
(* What the upstream provider can answer to one request.                   *)
(***************************************************************************)
\* client.get raised httpx.TimeoutException
UpTimeout == [kind |-> "timeout", status |-> 0, wellformed |-> FALSE,
              values |-> <<>>]
\* client.get raised another transport error (httpx.ConnectError)
UpConnect == [kind |-> "connect", status |-> 0, wellformed |-> FALSE,
              values |-> <<>>]
\* a response: its status code, whether the JSON has the shape
\* properties.parameter.ALLSKY_SFC_SW_DWN, and the per-day values in half units
UpResponse(status, wellformed, values) ==
    [kind |-> "response", status |-> status, wellformed |-> wellformed,
     values |-> values]

\* response.raise_for_status(): raises HTTPStatusError for every status that
\* is not a 2xx (1xx and 3xx included; the client follows no redirect)
RaisesForStatus(status) == ~(200 <= status /\ status <= 299)

\* lines 195 and 348: [float(value) for value in ... if value != -999.0]
RECURSIVE DropSentinel(_)
DropSentinel(values) ==
    IF values = <<>> THEN <<>>
    ELSE IF Head(values) # Sentinel
         THEN <<Head(values)>> \o DropSentinel(Tail(values))
         ELSE DropSentinel(Tail(values))

(***************************************************************************)
(* HTTP responses of the two handlers.                                     *)
(***************************************************************************)
Detail(msg, code, cause) == [msg |-> msg, code |-> code, cause |-> cause]
\* raise HTTPException(status_code = status, detail = detail) leaving a handler
HttpError(status, detail) == [status |-> status, detail |-> detail, body |-> <<>>]
\* a returned dictionary, served with status 200
HttpOk(body) == [status |-> 200, detail |-> Detail("", 0, ""), body |-> <<body>>]

(***************************************************************************)
(* Single-point query: get_solar_data.                                     *)
(***************************************************************************)
\* lines 159-162, coordinates in tenths of a degree
LatInRegion(lat) == 50 <= lat /\ lat <= 210
LonInRegion(lon) == 1170 <= lon /\ lon <= 1270

\* lines 185-218: the body of the try block, resumed with upstream's answer
SolarTry(lat, lon, u) ==
    IF u.kind = "timeout" THEN Raise(Exc("TimeoutException", 0))
    ELSE IF u.kind = "connect" THEN Raise(Exc("ConnectError", 0))
    ELSE IF RaisesForStatus(u.status)
         THEN Raise(Exc("HTTPStatusError", u.status))
    ELSE IF ~u.wellformed THEN Raise(Exc("KeyError", 0))
    ELSE LET irradiance_values == DropSentinel(u.values)
             avg_irradiance == Mean(irradiance_values)
             scored == calculate_solar_score(avg_irradiance, irradiance_values)
             solar_analysis == scored.value[1]
         IN  IF irradiance_values = <<>>
             THEN Raise(Exc("HTTPException", 404))
             ELSE IF scored.kind = "raise" THEN scored
             ELSE Return(
               [coordinates |-> [latitude |-> lat, longitude |-> lon],
                avg_irradiance |-> RoundDouble(avg_irradiance.num,
                                               avg_irradiance.den, 100),
                solar_score |-> solar_analysis.score,
                rating |-> solar_analysis.rating,
                recommendation |-> solar_analysis.recommendation,
                consistency_score |-> solar_analysis.consistency_score,
                min_irradiance |-> solar_analysis.min_irradiance,
                max_irradiance |-> solar_analysis.max_irradiance,
                estimated_annual_kwh_per_kw |->
                    solar_analysis.estimated_annual_kwh_per_kw,
                data_points |-> Len(irradiance_values)])

\* lines 220-225 with the generic clause tried first
SolarExceptGenericFirst(e) ==
    HttpError(500, Detail("Internal server error", e.status, e.type))

\* lines 220-225: the except clauses, tried in order.  The last one,
\* `except Exception`, matches every exception the first two do not, the
\* HTTPException of line 198 included.
SolarExcept(e) ==
    IF e.type = "TimeoutException"
    THEN HttpError(408, Detail("NASA API request timed out. Please try again.",
                               0, ""))
    ELSE IF e.type = "HTTPStatusError"
    THEN HttpError(502, Detail("NASA API error", e.status, ""))
    ELSE HttpError(500, Detail("Internal server error", e.status, e.type))

\* lines 184-225: the try statement
SolarRespond(lat, lon, u) ==
    LET r == SolarTry(lat, lon, u)
    IN  IF r.kind = "raise" THEN SolarExcept(r.exc) ELSE HttpOk(r.value[1])

\* requests and upstream answers the single-point query is driven with
LatValues == {49, 50, 146, 210, 211}
LonValues == {1169, 1170, 1210, 1270, 1271}
SolarMaxLen == 2
SolarReadings == {Sentinel, 0, 7, 9, 11, 12}
SeqsUpTo(S, n) == UNION {[1..k -> S] : k \in 0..n}
Repeat(v, k) == [i \in 1..k |-> v]
\* two longer bodies: twenty readings of mean 3.675, which the double mean
\* lies below (avg_irradiance 3.67), and ten readings of mean 5.85 (score 89)
SolarLongSeries ==
    {<<0>> \o Repeat(8, 18) \o <<3>>, Repeat(12, 9) \o <<9>>}
SolarUpstreams ==
    {UpTimeout, UpConnect, UpResponse(404, TRUE, <<>>),
     UpResponse(503, TRUE, <<>>), UpResponse(200, FALSE, <<>>),
     UpResponse(301, TRUE, <<12>>)}
    \cup {UpResponse(200, TRUE, v) : v \in SeqsUpTo(SolarReadings, SolarMaxLen)}
    \cup {UpResponse(200, TRUE, v) : v \in SolarLongSeries}

\* lines 147-186: the request arrives, the coordinates are validated (lines
\* 159-162) and the handler suspends in client.get
SolarReceive(lat, lon) ==
    /\ spc = "idle"
    /\ sreq' = [lat |-> lat, lon |-> lon]
    /\ IF ~LatInRegion(lat)
       THEN /\ sresp' = <<HttpError(400, Detail("Latitude must be within Philippines range",
                                               0, ""))>>
            /\ spc' = "done"
       ELSE IF ~LonInRegion(lon)
       THEN /\ sresp' = <<HttpError(400, Detail("Longitude must be within Philippines range",
                                               0, ""))>>
            /\ spc' = "done"
       ELSE /\ sresp' = sresp
            /\ spc' = "await"
    /\ UNCHANGED <<sup, scoreVars, classVars, zoneVars>>

\* lines 186-218: upstream answers (or the transport gives up) and the body
\* of the `async with` block runs to its return or raise; leaving the block
\* awaits the client's close (line 185), where the handler suspends again
SolarUpstream(u) ==
    /\ spc = "await"
    /\ sup' = <<u>>
    /\ spc' = "closing"
    /\ UNCHANGED <<sreq, sresp, scoreVars, classVars, zoneVars>>

\* lines 185, 220-225: the client is closed and the value returned or the
\* exception raised in the block becomes the response
SolarClose ==
    /\ spc = "closing"
    /\ sresp' = <<SolarRespond(sreq.lat, sreq.lon, sup[1])>>
    /\ spc' = "done"
    /\ UNCHANGED <<sreq, sup, scoreVars, classVars, zoneVars>>

(***************************************************************************)
(* Zone aggregation query: get_solar_zones and fetch_solar_data_for_point. *)
(* A sampling point of the catalog (lines 235-264) is its index.  The      *)
(* value of a coroutine is <<>> for None and <<d>> for the dictionary d.   *)
(***************************************************************************)
Points == 1..NumPoints

\* lines 322-369: the body of the try block, resumed with upstream's answer
FetchTry(point, u) ==
    IF u.kind = "timeout" THEN Raise(Exc("TimeoutException", 0))
    ELSE IF u.kind = "connect" THEN Raise(Exc("ConnectError", 0))
    ELSE IF RaisesForStatus(u.status)
         THEN Raise(Exc("HTTPStatusError", u.status))
    ELSE IF ~u.wellformed THEN Raise(Exc("KeyError", 0))
    ELSE LET irradiance_values == DropSentinel(u.values)
             avg_irradiance == Mean(irradiance_values)
             scored == calculate_solar_score(avg_irradiance, irradiance_values)
             solar_analysis == scored.value[1]
         IN  IF irradiance_values = <<>> THEN Return(<<>>)
             ELSE IF scored.kind = "raise" THEN scored
             ELSE Return(<<
               [name |-> point,
                avg_irradiance |-> RoundDouble(avg_irradiance.num,
                                               avg_irradiance.den, 100),
                solar_score |-> solar_analysis.score,
                rating |-> solar_analysis.rating,
                recommendation |-> solar_analysis.recommendation,
                consistency_score |-> solar_analysis.consistency_score,
                min_irradiance |-> solar_analysis.min_irradiance,
                max_irradiance |-> solar_analysis.max_irradiance,
                data_points |-> Len(irradiance_values)] >>)

\* lines 320-373: `except Exception` logs and returns None, so the coroutine
\* never raises
fetch_solar_data_for_point(point, u) ==
    LET r == FetchTry(point, u)
    IN  IF r.kind = "raise" THEN <<>> ELSE r.value[1]

\* asyncio.gather with the first settled task ending the wait
GatherDoneFirstCompleted == \E i \in Points : task[i] = "settled"

\* line 275: asyncio.gather(*tasks, return_exceptions=True) resumes the
\* handler when every task has settled
GatherDone == \A i \in Points : task[i] = "settled"

\* line 275 with the values taken in the order the tasks settled
GatherResultsAsCompleted ==
    [i \in Points |-> IF i <= Len(finished) THEN results[finished[i]] ELSE <<>>]

\* line 275: the list gather returns holds the values in the order the
\* tasks were passed, which is the order of the catalog
GatherResults == [i \in Points |-> results[i]]

\* lines 278-288 with the loop left at the first failed point
RECURSIVE SuccessfulUntilFailure(_)
SuccessfulUntilFailure(res) ==
    IF res = <<>> \/ Head(res) = <<>> THEN <<>>
    ELSE <<Head(res)[1]>> \o SuccessfulUntilFailure(Tail(res))

\* lines 278-288: successful_results, the truthy values in the order of the
\* results list (no value is an exception: see fetch_solar_data_for_point)
RECURSIVE Successful(_)
Successful(res) ==
    IF res = <<>> THEN <<>>
    ELSE IF Head(res) = <<>> THEN Successful(Tail(res))
    ELSE <<Head(res)[1]>> \o Successful(Tail(res))

\* line 288: zones, one per successful result, appended in the same loop
RECURSIVE ZonesOf(_)
ZonesOf(successful_results) ==
    IF successful_results = <<>> THEN <<>>
    ELSE <<create_zone_from_data(Head(successful_results))>>
         \o ZonesOf(Tail(successful_results))

\* lines 292-303 (the timestamp and the data-source label are not carried)
Statistics(successful_results, zones) ==
    LET scores == [i \in DOMAIN successful_results |->
                       successful_results[i].solar_score]
        irradiances == [i \in DOMAIN successful_results |->
                            successful_results[i].avg_irradiance]
    IN  [total_zones |-> Len(zones),
         avg_solar_score |-> RoundDouble(SumSeq(scores), Len(scores), 10),
         avg_irradiance |-> MeanOfHundredths(irradiances),
         max_score |-> MaxSeq(scores),
         min_score |-> MinSeq(scores)]

\* lines 277-315: the rest of the try block, resumed with gather's list
ZonesTry(res) ==
    LET successful_results == Successful(res)
        zones == ZonesOf(successful_results)
    IN  IF successful_results # <<>>
        THEN Return([zones |-> zones,
                     statistics |-> Statistics(successful_results, zones)])
        ELSE Raise(Exc("HTTPException", 503))

\* lines 317-318: `except Exception` matches every exception of the try
\* block, the HTTPException of line 305 included
ZonesExcept(e) ==
    HttpError(500, Detail("Failed to generate solar zones", e.status, e.type))

\* lines 266-318: the try statement, from gather's return on
ZonesRespond(res) ==
    LET r == ZonesTry(res)
    IN  IF r.kind = "raise" THEN ZonesExcept(r.exc) ELSE HttpOk(r.value[1])

\* upstream answers the per-point fetches are driven with: six that make
\* the fetch fail (timeout, 503, a redirect, malformed JSON, only sentinels,
\* mean 0) and four that succeed (6.0 -> score 92, 4.5 -> 69, mean 5.75 ->
\* 88, mean 5.666.. -> 87 with avg_irradiance 5.67, not a double)
ZoneUpstreams ==
    {UpTimeout, UpResponse(503, TRUE, <<>>), UpResponse(200, FALSE, <<>>),
     UpResponse(200, TRUE, <<Sentinel>>), UpResponse(200, TRUE, <<0>>),
     UpResponse(200, TRUE, <<12>>), UpResponse(200, TRUE, <<9, Sentinel>>),
     UpResponse(200, TRUE, <<11, 12>>), UpResponse(301, TRUE, <<12>>),
     UpResponse(200, TRUE, <<11, 12, 11>>)}

\* lines 228-275: the request arrives, one coroutine per catalog point is
\* created and the handler suspends in gather
ZonesReceive ==
    /\ zpc = "idle"
    /\ task' = [i \in Points |-> "pending"]
    /\ zpc' = "gather"
    /\ UNCHANGED <<upstream, results, finished, zresp,
                   scoreVars, classVars, solarVars>>

\* lines 341-373: upstream answers point i and its coroutine runs to its end
FetchSettle(i, u) ==
    /\ zpc = "gather"
    /\ task[i] = "pending"
    /\ upstream' = [upstream EXCEPT ![i] = <<u>>]
    /\ results' = [results EXCEPT ![i] = fetch_solar_data_for_point(i, u)]
    /\ task' = [task EXCEPT ![i] = "settled"]
    /\ finished' = Append(finished, i)
    /\ UNCHANGED <<zpc, zresp, scoreVars, classVars, solarVars>>

\* lines 275-315: gather returns and the body of the `async with` block runs
\* to its return or raise; leaving the block awaits the client's close (line
\* 268), where the handler suspends again
ZonesResume ==
    /\ zpc = "gather"
    /\ GatherDone
    /\ zpc' = "closing"
    /\ UNCHANGED <<task, upstream, results, finished, zresp,
                   scoreVars, classVars, solarVars>>

\* lines 268, 317-318: the client is closed and the value returned or the
\* exception raised in the block becomes the response
ZonesFinish ==
    /\ zpc = "closing"
    /\ zresp' = <<ZonesRespond(GatherResults)>>
    /\ zpc' = "done"
    /\ UNCHANGED <<task, upstream, results, finished,
                   scoreVars, classVars, solarVars>>

(***************************************************************************)
(* Harnesses of the two pure functions.                                    *)
(***************************************************************************)
\* the series the Score Engine is applied to: non-empty, readings 0 .. 7.0;
\* every series of up to MaxLen readings, and the longer ones of up to
\* LongLen readings that take one value and then another
LongSeries ==
    {Repeat(a, c[1]) \o Repeat(b, c[2]) :
         a \in 0..MaxReading, b \in 0..MaxReading,
         c \in {d \in (1..LongLen) \X (1..LongLen) :
                    MaxLen < d[1] + d[2] /\ d[1] + d[2] <= LongLen}}
ScoreSeries == UNION {[1..k -> 0..MaxReading] : k \in 1..MaxLen} \cup LongSeries

\* statistics.mean, then calculate_solar_score, as at lines 200-201 and 353-354
ApplyScore ==
    /\ analysis = <<>>
    /\ analysis' = <<calculate_solar_score(Mean(series), series)>>
    /\ UNCHANGED <<series, classVars, solarVars, zoneVars>>

Ratings == {"Excellent", "Good", "Fair", "Low"}

\* the scored points create_zone_from_data is applied to
ScoredPoints ==
    {[name |-> 1, avg_irradiance |-> 500, solar_score |-> sc, rating |-> r,
      recommendation |-> Recommendation(r), consistency_score |-> 800,
      min_irradiance |-> 400, max_irradiance |-> 600, data_points |-> 3] :
        sc \in 0..100, r \in Ratings}

ApplyZone ==
    /\ zout = <<>>
    /\ zout' = <<create_zone_from_data(zdata)>>
    /\ UNCHANGED <<zdata, scoreVars, solarVars, zoneVars>>

(***************************************************************************)
(* Specifications.                                                         *)
(***************************************************************************)
IdleScore == series = <<0>> /\ analysis = <<>>
IdleClass == zdata = CHOOSE d \in ScoredPoints : d.solar_score = 0 /\ d.rating = "Low"
IdleSolar == spc = "idle" /\ sreq = [lat |-> 0, lon |-> 0] /\ sup = <<>>
             /\ sresp = <<>>
IdleZones == /\ zpc = "idle"
             /\ task = [i \in Points |-> "none"]
             /\ upstream = [i \in Points |-> <<>>]
             /\ results = [i \in Points |-> <<>>]
             /\ finished = <<>>
             /\ zresp = <<>>

\* the zone aggregation query
InitZones == IdleZones /\ IdleSolar /\ IdleScore /\ IdleClass /\ zout = <<>>
NextZones ==
    \/ ZonesReceive
    \/ \E i \in Points, u \in ZoneUpstreams : FetchSettle(i, u)
    \/ ZonesResume
    \/ ZonesFinish
SpecZones == InitZones /\ [][NextZones]_vars

\* the single-point query
InitSolar == IdleZones /\ IdleSolar /\ IdleScore /\ IdleClass /\ zout = <<>>
NextSolar ==
    \/ \E lat \in LatValues, lon \in LonValues : SolarReceive(lat, lon)
    \/ \E u \in SolarUpstreams : SolarUpstream(u)
    \/ SolarClose
SpecSolar == InitSolar /\ [][NextSolar]_vars

\* the Score Engine applied to one series
InitScore == /\ series \in ScoreSeries
             /\ analysis = <<>>
             /\ IdleZones /\ IdleSolar /\ IdleClass /\ zout = <<>>
NextScore == ApplyScore
SpecScore == InitScore /\ [][NextScore]_vars

\* the zone classification applied to one scored point
InitClass == /\ zdata \in ScoredPoints
             /\ zout = <<>>
             /\ IdleZones /\ IdleSolar /\ IdleScore
NextClass == ApplyZone
SpecClass == InitClass /\ [][NextClass]_vars

\* one point of the aggregation, first step: upstream answers the point with
\* the series and its coroutine scores it and ends (lines 341-373); the value
\* of the coroutine waits in results[1] until gather returns
ApplyFetch ==
    /\ analysis = <<>>
    /\ analysis' = <<calculate_solar_score(Mean(series), series)>>
    /\ results' = [results EXCEPT ![1] =
                       fetch_solar_data_for_point(1, UpResponse(200, TRUE, series))]
    /\ UNCHANGED <<series, classVars, solarVars,
                   zpc, task, upstream, finished, zresp>>

\* second step, after gather has returned (line 275): the handler derives the
\* zone of a truthy result (lines 286-288); a None result gets no zone
ApplyDeriveZone ==
    /\ analysis # <<>>
    /\ results[1] # <<>>
    /\ zout = <<>>
    /\ zout' = <<create_zone_from_data(results[1][1])>>
    /\ UNCHANGED <<series, analysis, zdata, solarVars, zoneVars>>

\* the zone of one series of non-negative readings
InitSeriesZone == InitScore
NextSeriesZone == ApplyFetch \/ ApplyDeriveZone
SpecSeriesZone == InitSeriesZone /\ [][NextSeriesZone]_vars

\* the server answering either query
Init == InitZones
Next == NextZones \/ NextSolar
Spec == Init /\ [][Next]_vars

(***************************************************************************)
(* Vocabulary of the properties.                                           *)
(***************************************************************************)
Abs(x) == IF x >= 0 THEN x ELSE -x
\* k is an integer nearest to num/den (den > 0)
Nearest(k, num, den) == 2 * Abs(k * den - num) <= den

\* the zone query has answered
ZonesDone == zpc = "done" /\ zresp # <<>>
\* the points whose fetch gave a result / gave none
SucceededPoints == {i \in Points : task[i] = "settled" /\ results[i] # <<>>}
FailedPoints == {i \in Points : task[i] = "settled" /\ results[i] = <<>>}
\* position of point i in the order of completion
FinishedAt(i) == CHOOSE k \in DOMAIN finished : finished[k] = i

RECURSIVE SumOver(_, _)
SumOver(S, field) ==
    IF S = {} THEN 0
    ELSE LET i == CHOOSE x \in S : TRUE
         IN  (IF field = "score" THEN results[i][1].solar_score
              ELSE results[i][1].avg_irradiance) + SumOver(S \ {i}, field)

\* the single-point query has answered a request in the region
SolarAnswered == spc = "done" /\ sup # <<>> /\ sresp # <<>>
\* upstream answered with success and a well-formed body
SolarUpstreamOk == /\ sup[1].kind = "response"
                   /\ ~RaisesForStatus(sup[1].status)
                   /\ sup[1].wellformed
\* the readings of that body that are not the sentinel
SolarKept == SelectSeq(sup[1].values, LAMBDA v : v # Sentinel)

(***************************************************************************)
(* C1.  When every per-point fetch of a zone aggregation request fails,    *)
(* the query ends with AllFailed surfaced as service-unavailable (503).    *)
(* The code raises that HTTPException inside the try block whose           *)
(* `except Exception` turns it into a 500, so this is violated.            *)
(***************************************************************************)
C1_AllFailedIs503 ==
    (ZonesDone /\ SucceededPoints = {}) => zresp[1].status = 503

(***************************************************************************)
(* C2.  In the single-point query, an in-region request whose upstream     *)
(* response succeeds but holds no reading besides sentinels ends with      *)
(* not-found (404).  The code raises the 404 inside the try block whose    *)
(* `except Exception` turns it into a 500, so this is violated.            *)
(***************************************************************************)
C2_NoDataIs404 ==
    (SolarAnswered /\ SolarUpstreamOk /\ SolarKept = <<>>)
        => sresp[1].status = 404

(***************************************************************************)
(* C3.  When k < N of the N catalog points fail, the request succeeds,     *)
(* returns exactly one zone per successful point and none for a failed     *)
(* one, and the statistics are those of the successful points.             *)
(***************************************************************************)
C3_PartialFailure ==
    (ZonesDone /\ SucceededPoints # {}) =>
        LET S == SucceededPoints
            n == Cardinality(S)
            body == zresp[1].body[1]
            st == body.statistics
        IN  /\ zresp[1].status = 200
            /\ Len(body.zones) = n
            /\ n = NumPoints - Cardinality(FailedPoints)
            /\ {body.zones[k].name : k \in DOMAIN body.zones} = S
            /\ \A k \in DOMAIN body.zones :
                   LET d == results[body.zones[k].name][1]
                   IN  /\ body.zones[k].score = d.solar_score
                       /\ body.zones[k].avg_irradiance = d.avg_irradiance
            /\ st.total_zones = n
            /\ Nearest(st.avg_solar_score, 10 * SumOver(S, "score"), n)
            /\ Nearest(st.avg_irradiance, SumOver(S, "irradiance"), n)
            /\ \E i \in S : st.max_score = results[i][1].solar_score
            /\ \A i \in S : st.max_score >= results[i][1].solar_score
            /\ \E i \in S : st.min_score = results[i][1].solar_score
            /\ \A i \in S : st.min_score <= results[i][1].solar_score

\* the first point of the catalog failed, the others succeeded with different
\* scores, and the response holds their zones
C3_Witness ==
    /\ ZonesDone
    /\ FailedPoints = {1}
    /\ zresp[1].status = 200
    /\ zresp[1].body[1].statistics.total_zones = NumPoints - 1
    /\ zresp[1].body[1].statistics.max_score
           > zresp[1].body[1].statistics.min_score

(***************************************************************************)
(* C4.  Whatever the order in which the fetches complete, the zones of the *)
(* response follow the order of the catalog.                               *)
(***************************************************************************)
C4_CatalogOrder ==
    (ZonesDone /\ zresp[1].status = 200) =>
        LET zones == zresp[1].body[1].zones
        IN  \A a, b \in DOMAIN zones :
                a < b => zones[a].name < zones[b].name

\* two points succeeded, the later one of the catalog completed first, and
\* both zones are in the response
C4_Witness ==
    /\ ZonesDone
    /\ zresp[1].status = 200
    /\ \E i, j \in SucceededPoints :
           /\ i < j
           /\ FinishedAt(j) < FinishedAt(i)
           /\ \E a, b \in DOMAIN zresp[1].body[1].zones :
                  /\ zresp[1].body[1].zones[a].name = i
                  /\ zresp[1].body[1].zones[b].name = j

(***************************************************************************)
(* C5.  As stated: for every series whose mean is >= 5.5 the rating is     *)
(* Excellent and the score is min(100, round(mean / 6.5 * 100)), round     *)
(* being rounding to the nearest integer.  The code truncates, so this is  *)
(* violated (mean 5.5: 84.6 gives 84).                                     *)
(***************************************************************************)
C5_ExcellentRounded ==
    (analysis # <<>> /\ SumSeq(series) * 2 >= 11 * 2 * Len(series)) =>
        /\ analysis[1].kind = "return"
        /\ analysis[1].value[1].rating = "Excellent"
        /\ \E r \in 0..200 :
               /\ Nearest(r, 100 * SumSeq(series), 13 * Len(series))
               /\ analysis[1].value[1].score = Min2(100, r)

(***************************************************************************)
(* C5, amended.  For every series whose mean is >= 5.5 the rating is       *)
(* Excellent and the score is min(100, t), t being mean / 6.5 * 100 with   *)
(* its fraction dropped (the largest integer not above it); at mean 5.85,  *)
(* where the quotient is 90 but the double the program computes is         *)
(* 89.99.., the score is 89.                                               *)
(***************************************************************************)
C5_ExcellentTruncated ==
    (analysis # <<>> /\ SumSeq(series) * 2 >= 11 * 2 * Len(series)) =>
        /\ analysis[1].kind = "return"
        /\ analysis[1].value[1].rating = "Excellent"
        /\ \E t \in 0..200 :
               /\ t * 13 * Len(series) <= 100 * SumSeq(series)
               /\ (t + 1) * 13 * Len(series) > 100 * SumSeq(series)
               /\ analysis[1].value[1].score =
                      IF 100 * SumSeq(series) = 90 * 13 * Len(series)
                      THEN 89 ELSE Min2(100, t)

\* a series of mean 5.5 was scored: 84.6 is truncated to 84
C5_Witness ==
    /\ analysis # <<>>
    /\ series = <<10, 12>>
    /\ analysis[1].value[1].rating = "Excellent"
    /\ analysis[1].value[1].score = 84

(***************************************************************************)
(* C6.  As stated: the annual estimate is mean * 365 * 0.85 rounded to the *)
(* nearest whole unit, and the series [4.0, 5.0, 6.0] gets score 77,       *)
(* consistency 80.0 and an annual estimate of 1552.  The product is        *)
(* 1551.25 and the code returns 1551, so this is violated.                 *)
(***************************************************************************)
C6_Example1552 ==
    (analysis # <<>> /\ analysis[1].kind = "return") =>
        /\ Nearest(analysis[1].value[1].estimated_annual_kwh_per_kw,
                   1241 * SumSeq(series), 8 * Len(series))
        /\ series = <<8, 10, 12>> =>
               /\ analysis[1].value[1].score = 77
               /\ analysis[1].value[1].consistency_score = 800
               /\ analysis[1].value[1].estimated_annual_kwh_per_kw = 1552

(***************************************************************************)
(* C6, amended.  The annual estimate is mean * 365 * 0.85 (= mean *        *)
(* 1241 / 4) rounded to the nearest whole unit, and the series             *)
(* [4.0, 5.0, 6.0] gets score 77, consistency 80.0 and an annual estimate  *)
(* of 1551.                                                                *)
(***************************************************************************)
C6_AnnualYield ==
    (analysis # <<>> /\ analysis[1].kind = "return") =>
        /\ Nearest(analysis[1].value[1].estimated_annual_kwh_per_kw,
                   1241 * SumSeq(series), 8 * Len(series))
        /\ series = <<8, 10, 12>> =>
               /\ analysis[1].value[1].score = 77
               /\ analysis[1].value[1].consistency_score = 800
               /\ analysis[1].value[1].estimated_annual_kwh_per_kw = 1551

\* the series [4.0, 5.0, 6.0] was scored
C6_Witness ==
    /\ analysis # <<>>
    /\ series = <<8, 10, 12>>
    /\ analysis[1].kind = "return"
    /\ analysis[1].value[1].rating = "Good"
    /\ analysis[1].value[1].estimated_annual_kwh_per_kw = 1551

(***************************************************************************)
(* C7.  A non-empty series of mean 0 reaches the caller of the single-     *)
(* point query as a failure of its own: neither a Solar Analysis nor the   *)
(* generic internal error.  The code has no guard: the division raises     *)
(* ZeroDivisionError, which `except Exception` reports as the generic      *)
(* internal error (500), so this is violated.                              *)
(***************************************************************************)
C7_DegenerateDistinguishable ==
    (SolarAnswered /\ SolarUpstreamOk /\ SolarKept # <<>>
        /\ SumSeq(SolarKept) = 0)
        => /\ sresp[1].status # 200
           /\ sresp[1].status # 500
           /\ sresp[1].detail.msg # "Internal server error"

(***************************************************************************)
(* C8.  In the single-point query for an in-region coordinate, a transport *)
(* timeout is surfaced as 408 and an upstream non-success status as 502    *)
(* whose detail carries the upstream status code; neither as 500.          *)
(***************************************************************************)
C8_TimeoutAndUpstreamStatus ==
    SolarAnswered =>
        /\ sup[1].kind = "timeout" => sresp[1].status = 408
        /\ (sup[1].kind = "response" /\ sup[1].status \notin 200..299) =>
               /\ sresp[1].status = 502
               /\ sresp[1].detail.msg = "NASA API error"
               /\ sresp[1].detail.code = sup[1].status

\* upstream answered 503 and the caller got a 502 naming it
C8_Witness ==
    /\ SolarAnswered
    /\ LatInRegion(sreq.lat) /\ LonInRegion(sreq.lon)
    /\ sup[1].kind = "response" /\ sup[1].status = 503
    /\ sresp[1].status = 502
    /\ sresp[1].detail.code = 503

(***************************************************************************)
(* C9.  The zone classification is decided by the integer score alone:     *)
(* >= 85 excellent, 70..84 good, 55..69 fair, below 55 low, and each       *)
(* classification has one fixed display color.                             *)
(***************************************************************************)
C9_Classification ==
    zout # <<>> =>
        LET sc == zdata.solar_score
            z == zout[1]
        IN  /\ z.score = sc
            /\ sc \in 85..100 => z.type = "excellent"
            /\ sc \in 70..84 => z.type = "good"
            /\ sc \in 55..69 => z.type = "fair"
            /\ sc \in 0..54 => z.type = "low"
            /\ z.type = "excellent" => z.color = "#22c55e"
            /\ z.type = "good" => z.color = "#eab308"
            /\ z.type = "fair" => z.color = "#f97316"
            /\ z.type = "low" => z.color = "#ef4444"

\* a point of score 85, the lowest excellent one, was classified (its
\* rating being another than Excellent changes nothing)
C9_Witness ==
    /\ zout # <<>>
    /\ zdata.solar_score = 85
    /\ zdata.rating = "Good"
    /\ zout[1].type = "excellent"

(***************************************************************************)
(* C10.  No zone is derived and no statistic computed before every fetch   *)
(* task has settled, and a failed fetch neither cancels another task nor   *)
(* keeps it from completing: while the handler waits, every pending task   *)
(* can still settle, and at the response all have.                         *)
(***************************************************************************)
C10_WaitForAll ==
    /\ (zpc \in {"closing", "done"} \/ zresp # <<>>) =>
           \A i \in Points : task[i] = "settled"
    /\ zpc = "gather" =>
           \A j \in Points :
               task[j] = "pending" =>
                   ENABLED (\E u \in ZoneUpstreams : FetchSettle(j, u))
    /\ zpc = "done" => Len(finished) = NumPoints

\* the fetch that completed first failed, one that completed after it
\* succeeded, and its zone is in the response
C10_Witness ==
    /\ ZonesDone
    /\ finished # <<>>
    /\ results[finished[1]] = <<>>
    /\ zresp[1].status = 200
    /\ \E k \in DOMAIN finished :
           /\ k > 1
           /\ \E a \in DOMAIN zresp[1].body[1].zones :
                  zresp[1].body[1].zones[a].name = finished[k]

(***************************************************************************)
(* C11.  For every zone produced from a series of non-negative readings,   *)
(* the zone classification is never a higher tier than the Score Engine's  *)
(* rating of the same series (low < fair < good < excellent against        *)
(* Low < Fair < Good < Excellent); so an excellent zone has rating         *)
(* Excellent and a zone of rating Low is classified low.                   *)
(***************************************************************************)
TierOfType(type) ==
    CASE type = "low" -> 1 [] type = "fair" -> 2
      [] type = "good" -> 3 [] type = "excellent" -> 4
TierOfRating(rating) ==
    CASE rating = "Low" -> 1 [] rating = "Fair" -> 2
      [] rating = "Good" -> 3 [] rating = "Excellent" -> 4

C11_ClassNotAboveRating ==
    (analysis # <<>> /\ zout # <<>>) =>
        /\ analysis[1].kind = "return"
        /\ results[1] # <<>>
        /\ zout[1].rating = analysis[1].value[1].rating
        /\ zout[1].score = analysis[1].value[1].score
        /\ TierOfType(zout[1].type) <= TierOfRating(analysis[1].value[1].rating)
        /\ zout[1].type = "excellent" =>
               analysis[1].value[1].rating = "Excellent"
        /\ analysis[1].value[1].rating = "Low" => zout[1].type = "low"

\* a series of mean 5.5 gave a zone: rated Excellent, score 84, classified
\* good, one tier below its rating
C11_Witness ==
    /\ analysis # <<>>
    /\ zout # <<>>
    /\ series = <<10, 12>>
    /\ zout[1].rating = "Excellent"
    /\ zout[1].type = "good"

=============================================================================
